---- MODULE Spec2Model ----
(***************************************************************************)
(* Model of class CA of grscheller/circular_array/ca.py: an indexable      *)
(* circular array kept in a Python list _list with the integers _count,    *)
(* _capacity, _front and _rear.                                            *)
(*                                                                         *)
(* Python list positions are 0-based; the TLA+ sequence list holds         *)
(* position p at list[p + 1].  A raw list access outside the list raises   *)
(* IndexError exactly as the Python list does, and a method that raises    *)
(* midway keeps the assignments it had already made.                       *)
(***************************************************************************)
EXTENDS Integers, Sequences, FiniteSets, TLC

VARIABLES
    list,       \* self._list
    count,      \* self._count
    capacity,   \* self._capacity
    front,      \* self._front
    rear,       \* self._rear
    result,     \* what the last call returned or raised
    abs,        \* history: the abstract sequence the calls so far describe
    ninit,      \* history: number of elements the constructor was given
    npushF,     \* history: number of elements pushed by push_front
    npushR,     \* history: number of elements pushed by push_rear
    npops,      \* history: number of unsafe pops that returned
    nsteps,     \* history: elements pushed plus other calls (Spec counts them)
    it,         \* the iterator obtained from iter(ca) or reversed(ca), if any
    ncopied,    \* history: slots copied by growth (SpecSingles counts them)
    th          \* the threads calling the CA, if any (SpecThreads)

vars == <<list, count, capacity, front, rear, result,
          abs, ninit, npushF, npushR, npops, nsteps, it, ncopied, th>>

-----------------------------------------------------------------------------
(* Bounds of the model *)

MaxInit == 1        \* longest argument tuple of the constructor
MaxArgs == 2        \* longest argument tuple of one push call
MaxSteps == 4       \* Spec: elements pushed plus other calls in one behaviour
MaxPushes == 6      \* SpecPushPop: elements pushed in one behaviour
MaxCalls == 5       \* SpecCapacity: elements pushed plus other calls
MaxIterSteps == 4   \* SpecIter: elements pushed plus other calls
MaxOther == 3       \* longest sequence held by the other CA of a comparison
MaxReadSteps == 3   \* SpecRead: elements pushed plus other calls
MaxCircSteps == 4   \* SpecCircularArray: calls in one behaviour
MaxSingles == 9     \* SpecSingles: single-element pushes in one behaviour
MaxThreadOps == 2   \* SpecThreads: calls each thread makes in one behaviour

None == 0           \* Python's None, the empty placeholder
Values == {1, 2}    \* the elements stored (never None)

Min(a, b) == IF a < b THEN a ELSE b

RECURSIVE Reverse(_)
Reverse(s) == IF s = <<>> THEN <<>> ELSE Append(Reverse(Tail(s)), Head(s))

Tuples(n) == UNION {[1..k -> Values] : k \in 0..n}

-----------------------------------------------------------------------------
(* Python list primitives *)

\* [None]*n
Nones(n) == [j \in 1..n |-> None]

\* whether l[i] is a valid access, for i >= 0
HasIdx(l, i) == 0 <= i /\ i < Len(l)

\* l[i]
At(l, i) == l[i + 1]

\* l[i] = v
Put(l, i, v) == [l EXCEPT ![i + 1] = v]

\* l[a:b] for a, b >= 0: slices clamp to the list, they never raise
Slice(l, a, b) ==
    LET hi == Min(b, Len(l))
    IN  IF a >= hi THEN <<>> ELSE [j \in 1..(hi - a) |-> l[a + j]]

-----------------------------------------------------------------------------
(* The object and the outcome of a call *)

Self == [list |-> list, count |-> count, capacity |-> capacity,
         front |-> front, rear |-> rear]

\* a call that returned: val is a returned element, tup a returned tuple
Ok(s, v, t) == [s |-> s, exc |-> "none", msg |-> "", val |-> v, tup |-> t]

\* a call that raised exception e with message m, leaving the object as s
Raise(s, e, m) == [s |-> s, exc |-> e, msg |-> m, val |-> None, tup |-> <<>>]

Result(r) == [exc |-> r.exc, msg |-> r.msg, val |-> r.val, tup |-> r.tup]

NoResult == [exc |-> "none", msg |-> "", val |-> None, tup |-> <<>>]

-----------------------------------------------------------------------------
(* Methods of CA, as functions from the object (and arguments) to outcome *)

\* the constructor without the placeholder in front of the data
__init___nohead(ds) ==
    LET l == ds \o <<None>>
        cap == Len(l)
    IN  [list |-> l, capacity |-> cap, count |-> cap - 1,
         front |-> 0,
         rear |-> IF cap = 1 THEN 0 ELSE cap - 2]

__init__(ds) ==
    LET l == <<None>> \o ds \o <<None>>
        cap == Len(l)
    IN  [list |-> l, capacity |-> cap, count |-> cap - 2,
         front |-> IF cap = 2 THEN 0 ELSE 1,
         rear |-> IF cap = 2 THEN 1 ELSE cap - 2]

__len__(s) == s.count

__bool__(s) == s.count > 0

__getitem__(s, index) ==
    LET cnt == s.count
        p == IF 0 <= index /\ index < cnt
             THEN (s.front + index) % s.capacity
             ELSE (s.front + cnt + index) % s.capacity
    IN  IF (0 <= index /\ index < cnt) \/ (-cnt <= index /\ index < 0)
        THEN IF HasIdx(s.list, p)
             THEN Ok(s, At(s.list, p), <<>>)
             ELSE Raise(s, "IndexError", "list index out of range")
        ELSE IF cnt > 0
             THEN Raise(s, "IndexError", "Out of bounds: while getting value from a CA.")
             ELSE Raise(s, "IndexError", "Trying to get value from an empty CA.")

\* mutant: the upper bound test is off by one (index <= cnt)
__setitem___offbyone(s, index, value) ==
    LET cnt == s.count
        p == IF 0 <= index /\ index <= cnt
             THEN (s.front + index) % s.capacity
             ELSE (s.front + cnt + index) % s.capacity
    IN  IF (0 <= index /\ index <= cnt) \/ (-cnt <= index /\ index < 0)
        THEN IF HasIdx(s.list, p)
             THEN Ok([s EXCEPT !.list = Put(@, p, value)], None, <<>>)
             ELSE Raise(s, "IndexError", "list assignment index out of range")
        ELSE IF cnt > 0
             THEN Raise(s, "IndexError", "Out of bounds: while setting value from a CA.")
             ELSE Raise(s, "IndexError", "Trying to set value from an empty CA.")

__setitem__(s, index, value) ==
    LET cnt == s.count
        p == IF 0 <= index /\ index < cnt
             THEN (s.front + index) % s.capacity
             ELSE (s.front + cnt + index) % s.capacity
    IN  IF (0 <= index /\ index < cnt) \/ (-cnt <= index /\ index < 0)
        THEN IF HasIdx(s.list, p)
             THEN Ok([s EXCEPT !.list = Put(@, p, value)], None, <<>>)
             ELSE Raise(s, "IndexError", "list assignment index out of range")
        ELSE IF cnt > 0
             THEN Raise(s, "IndexError", "Out of bounds: while setting value from a CA.")
             ELSE Raise(s, "IndexError", "Trying to set value from an empty CA.")

\* mutant: the wrapped branch forgets to move front past the inserted block
double_noshift(s) ==
    IF s.front <= s.rear
    THEN [s EXCEPT !.list = @ \o Nones(s.capacity),
                   !.capacity = 2 * @]
    ELSE [s EXCEPT !.list = Slice(@, 0, s.front) \o Nones(s.capacity)
                            \o Slice(@, s.front, Len(@)),
                   !.capacity = 2 * @]

\* growth by one slot instead of doubling
double_byone(s) ==
    IF s.front <= s.rear
    THEN [s EXCEPT !.list = @ \o Nones(1),
                   !.capacity = @ + 1]
    ELSE [s EXCEPT !.list = Slice(@, 0, s.front) \o Nones(1)
                            \o Slice(@, s.front, Len(@)),
                   !.front = @ + 1,
                   !.capacity = @ + 1]

double(s) ==
    IF s.front <= s.rear
    THEN [s EXCEPT !.list = @ \o Nones(s.capacity),
                   !.capacity = 2 * @]
    ELSE [s EXCEPT !.list = Slice(@, 0, s.front) \o Nones(s.capacity)
                            \o Slice(@, s.front, Len(@)),
                   !.front = @ + s.capacity,
                   !.capacity = 2 * @]

RECURSIVE push_rear(_, _)
push_rear(s, ds) ==
    IF ds = <<>> THEN Ok(s, None, <<>>)
    ELSE LET s1 == IF s.count = s.capacity THEN double(s) ELSE s
             s2 == [s1 EXCEPT !.rear = (@ + 1) % s1.capacity]
         IN  IF HasIdx(s2.list, s2.rear)
             THEN push_rear([s2 EXCEPT !.list = Put(@, s2.rear, Head(ds)),
                                       !.count = @ + 1], Tail(ds))
             ELSE Raise(s2, "IndexError", "list assignment index out of range")

RECURSIVE push_front(_, _)
push_front(s, ds) ==
    IF ds = <<>> THEN Ok(s, None, <<>>)
    ELSE LET s1 == IF s.count = s.capacity THEN double(s) ELSE s
             s2 == [s1 EXCEPT !.front = (@ - 1) % s1.capacity]
         IN  IF HasIdx(s2.list, s2.front)
             THEN push_front([s2 EXCEPT !.list = Put(@, s2.front, Head(ds)),
                                        !.count = @ + 1], Tail(ds))
             ELSE Raise(s2, "IndexError", "list assignment index out of range")

\* mutant: the pop forgets to decrement _count
pop_front_unsafe_keepcount(s) ==
    IF s.count > 0
    THEN IF HasIdx(s.list, s.front)
         THEN Ok([s EXCEPT !.list = Put(@, s.front, None),
                           !.front = (@ + 1) % s.capacity],
                 At(s.list, s.front), <<>>)
         ELSE Raise(s, "IndexError", "list index out of range")
    ELSE Raise(s, "ValueError", "Method pop_front_unsafe called on an empty CA")

pop_front_unsafe(s) ==
    IF s.count > 0
    THEN IF HasIdx(s.list, s.front)
         THEN Ok([s EXCEPT !.list = Put(@, s.front, None),
                           !.front = (@ + 1) % s.capacity,
                           !.count = @ - 1],
                 At(s.list, s.front), <<>>)
         ELSE Raise(s, "IndexError", "list index out of range")
    ELSE Raise(s, "ValueError", "Method pop_front_unsafe called on an empty CA")

pop_rear_unsafe(s) ==
    IF s.count > 0
    THEN IF HasIdx(s.list, s.rear)
         THEN Ok([s EXCEPT !.list = Put(@, s.rear, None),
                           !.rear = (@ - 1) % s.capacity,
                           !.count = @ - 1],
                 At(s.list, s.rear), <<>>)
         ELSE Raise(s, "IndexError", "list index out of range")
    ELSE Raise(s, "ValueError", "Method pop_rear_unsafe called on an empty CA")

\* the while loop of pop_front; ds are the values popped so far
RECURSIVE pop_front_loop(_, _, _)
pop_front_loop(s, num, ds) ==
    IF num > 0
    THEN LET r == pop_front_unsafe(s)
         IN  IF r.exc = "none" THEN pop_front_loop(r.s, num - 1, Append(ds, r.val))
             ELSE IF r.exc = "ValueError"
                  THEN [s |-> s, num |-> num, ds |-> ds, exc |-> "none"]
                  ELSE [s |-> r.s, num |-> num, ds |-> ds, exc |-> r.exc]
    ELSE [s |-> s, num |-> num, ds |-> ds, exc |-> "none"]

pop_front(s, num, default) ==
    LET l == pop_front_loop(s, num, <<>>)
    IN  IF l.exc # "none" THEN Raise(l.s, l.exc, "list index out of range")
        ELSE IF l.num = 1 /\ Len(l.ds) = 0 /\ default # None
             THEN Ok(l.s, None, <<default>>)
             ELSE Ok(l.s, None, l.ds)

\* the while loop of pop_rear, which counts down a copy n of num
RECURSIVE pop_rear_loop(_, _, _)
pop_rear_loop(s, n, ds) ==
    IF n > 0
    THEN LET r == pop_rear_unsafe(s)
         IN  IF r.exc = "none" THEN pop_rear_loop(r.s, n - 1, Append(ds, r.val))
             ELSE IF r.exc = "ValueError"
                  THEN [s |-> s, ds |-> ds, exc |-> "none"]
                  ELSE [s |-> r.s, ds |-> ds, exc |-> r.exc]
    ELSE [s |-> s, ds |-> ds, exc |-> "none"]

pop_rear(s, num, default) ==
    LET l == pop_rear_loop(s, num, <<>>)
    IN  IF l.exc # "none" THEN Raise(l.s, l.exc, "list index out of range")
        ELSE IF num = 1 /\ Len(l.ds) = 0 /\ default # None
             THEN Ok(l.s, None, <<default>>)
             ELSE Ok(l.s, None, l.ds)

compact(s) ==
    IF s.count = 0
    THEN Ok([s EXCEPT !.capacity = 2, !.front = 0, !.rear = 1,
                      !.list = <<None, None>>], None, <<>>)
    ELSE IF s.count = 1
    THEN IF HasIdx(s.list, s.front)
         THEN Ok([s EXCEPT !.capacity = 3, !.front = 1, !.rear = 1,
                           !.list = <<None, At(s.list, s.front), None>>],
                 None, <<>>)
         ELSE Raise(s, "IndexError", "list index out of range")
    ELSE IF s.front <= s.rear
    THEN Ok([s EXCEPT !.capacity = s.count + 2, !.front = 1, !.rear = s.count,
                      !.list = <<None>> \o Slice(@, s.front, s.rear + 1)
                               \o <<None>>], None, <<>>)
    ELSE Ok([s EXCEPT !.capacity = s.count + 2, !.front = 1, !.rear = s.count,
                      !.list = <<None>> \o Slice(@, s.front, Len(@))
                               \o Slice(@, 0, s.rear + 1) \o <<None>>],
            None, <<>>)

\* empty() giving back the storage, as a freshly constructed CA() has it
empty_fresh(s) ==
    [s EXCEPT !.list = Nones(2), !.capacity = 2, !.front = 0, !.rear = 1]

empty(s) ==
    [s EXCEPT !.list = Nones(s.capacity), !.front = 0, !.rear = s.capacity - 1]

resize(s, newSize) ==
    LET c == compact(s)
        cap == c.s.capacity
    IN  IF c.exc # "none" THEN c
        ELSE IF newSize > cap
        THEN LET s1 == [c.s EXCEPT !.list = @ \o Nones(newSize - cap),
                                   !.capacity = newSize]
             IN  Ok(IF s1.count = 0 THEN [s1 EXCEPT !.rear = cap - 1] ELSE s1,
                    None, <<>>)
        ELSE c

\* the values the generator of __iter__ yields when run to its end, from
\* position pos of the snapshot; n bounds the walk by the capacity
RECURSIVE iter_from(_, _, _)
iter_from(s, pos, n) ==
    IF ~HasIdx(s.list, pos) THEN [exc |-> "IndexError", tup |-> <<>>]
    ELSE IF pos = s.rear \/ n = 0
    THEN [exc |-> "none", tup |-> <<At(s.list, pos)>>]
    ELSE LET r == iter_from(s, (pos + 1) % s.capacity, n - 1)
         IN  [exc |-> r.exc, tup |-> <<At(s.list, pos)>> \o r.tup]

__iter__(s) ==
    IF s.count > 0 THEN iter_from(s, s.front, s.capacity)
    ELSE [exc |-> "none", tup |-> <<>>]

RECURSIVE reversed_from(_, _, _)
reversed_from(s, pos, n) ==
    IF ~HasIdx(s.list, pos) THEN [exc |-> "IndexError", tup |-> <<>>]
    ELSE IF pos = s.front \/ n = 0
    THEN [exc |-> "none", tup |-> <<At(s.list, pos)>>]
    ELSE LET r == reversed_from(s, (pos - 1) % s.capacity, n - 1)
         IN  [exc |-> r.exc, tup |-> <<At(s.list, pos)>> \o r.tup]

__reversed__(s) ==
    IF s.count > 0 THEN reversed_from(s, s.rear, s.capacity)
    ELSE [exc |-> "none", tup |-> <<>>]

\* the for loop of __eq__ from index nn on; s is self, o is other
RECURSIVE eq_from(_, _, _)
eq_from(s, o, nn) ==
    IF nn >= s.count THEN [exc |-> "none", val |-> TRUE]
    ELSE LET pL == (s.front + nn) % s.capacity
             pR == (o.front + nn) % o.capacity
         IN  IF ~HasIdx(s.list, pL) \/ ~HasIdx(o.list, pR)
             THEN [exc |-> "IndexError", val |-> FALSE]
             ELSE IF At(s.list, pL) # At(o.list, pR)
                  THEN [exc |-> "none", val |-> FALSE]
                  ELSE eq_from(s, o, nn + 1)

\* self == other, for other a CA
__eq__(s, o) ==
    IF s.count # o.count THEN [exc |-> "none", val |-> FALSE]
    ELSE eq_from(s, o, 0)

\* the functions f handed to map: f[x] is f(x), for x an element or None
Funcs == [{None} \cup Values -> Values]

\* CA(*map(f, self)): the new CA, or the exception the iteration raised
map(s, f) ==
    LET i == __iter__(s)
    IN  IF i.exc # "none" THEN [exc |-> i.exc, new |-> __init__(<<>>)]
        ELSE [exc |-> "none",
              new |-> __init__([j \in 1..Len(i.tup) |-> f[i.tup[j]]])]

\* The folds are run with a function fold_f that builds terms: an element x is
\* the term <<x>> and fold_f(a, b) is the term "( a b )", so that the value
\* returned tells in which order and nesting it was applied.
Open == -2

Close == -3

Term(x) == <<x>>

fold_f(a, b) == <<Open>> \o a \o b \o <<Close>>

\* a Python value that is falsy and not None (such as 0), as initial value
Falsy == -1

\* the loop "for idx in range(idx, self._count)" of foldL
RECURSIVE foldL_index(_, _, _)
foldL_index(s, acc, idx) ==
    IF idx >= s.count THEN Ok(s, None, acc)
    ELSE LET g == __getitem__(s, idx)
         IN  IF g.exc # "none" THEN Raise(s, g.exc, g.msg)
             ELSE foldL_index(s, fold_f(acc, Term(g.val)), idx + 1)

\* the loop "for d in self" of foldL over the elements ds still to come
RECURSIVE foldL_iter(_, _)
foldL_iter(acc, ds) ==
    IF ds = <<>> THEN acc ELSE foldL_iter(fold_f(acc, Term(Head(ds))), Tail(ds))

\* mutant: the initial value is tested for truth, not for being None
foldL_truthy(s, initial) ==
    IF s.count = 0
    THEN IF initial \in {None, Falsy}
         THEN Raise(s, "ValueError",
                    "Method foldL called on an empty CA without an initial value.")
         ELSE Ok(s, None, Term(initial))
    ELSE IF initial \in {None, Falsy}
         THEN LET g == __getitem__(s, 0)
              IN  IF g.exc # "none" THEN Raise(s, g.exc, g.msg)
                  ELSE foldL_index(s, Term(g.val), 1)
         ELSE LET i == __iter__(s)
              IN  IF i.exc # "none"
                  THEN Raise(s, i.exc, "list index out of range")
                  ELSE Ok(s, None, foldL_iter(Term(initial), i.tup))

foldL(s, initial) ==
    IF s.count = 0
    THEN IF initial = None
         THEN Raise(s, "ValueError",
                    "Method foldL called on an empty CA without an initial value.")
         ELSE Ok(s, None, Term(initial))
    ELSE IF initial = None
         THEN LET g == __getitem__(s, 0)
              IN  IF g.exc # "none" THEN Raise(s, g.exc, g.msg)
                  ELSE foldL_index(s, Term(g.val), 1)
         ELSE LET i == __iter__(s)
              IN  IF i.exc # "none"
                  THEN Raise(s, i.exc, "list index out of range")
                  ELSE Ok(s, None, foldL_iter(Term(initial), i.tup))

\* the loop "for idx in range(idx, -1, -1)" of foldR
RECURSIVE foldR_index(_, _, _)
foldR_index(s, acc, idx) ==
    IF idx < 0 THEN Ok(s, None, acc)
    ELSE LET g == __getitem__(s, idx)
         IN  IF g.exc # "none" THEN Raise(s, g.exc, g.msg)
             ELSE foldR_index(s, fold_f(Term(g.val), acc), idx - 1)

\* the loop "for d in reversed(self)" of foldR
RECURSIVE foldR_iter(_, _)
foldR_iter(acc, ds) ==
    IF ds = <<>> THEN acc ELSE foldR_iter(fold_f(Term(Head(ds)), acc), Tail(ds))

foldR(s, initial) ==
    IF s.count = 0
    THEN IF initial = None
         THEN Raise(s, "ValueError",
                    "Method foldR called on an empty CA without an initial value.")
         ELSE Ok(s, None, Term(initial))
    ELSE IF initial = None
         THEN LET g == __getitem__(s, -1)
              IN  IF g.exc # "none" THEN Raise(s, g.exc, g.msg)
                  ELSE foldR_index(s, Term(g.val), s.count - 2)
         ELSE LET i == __reversed__(s)
              IN  IF i.exc # "none"
                  THEN Raise(s, i.exc, "list index out of range")
                  ELSE Ok(s, None, foldR_iter(Term(initial), i.tup))

-----------------------------------------------------------------------------
(* The generators behind iter(ca) and reversed(ca).  __iter__ and          *)
(* __reversed__ are generator functions: calling them runs none of their   *)
(* body, which starts at the first next() and is then suspended at each    *)
(* yield.  st is where the generator stands: "new" (not started), "loop"   *)
(* (at the yield inside the while), "last" (at the final yield), "done".   *)

NoIter == [st |-> "none", rev |-> FALSE, capacity |-> 0, stop |-> 0,
           position |-> 0, currentState |-> <<>>, exc |-> "none",
           yielded |-> <<>>, expect |-> <<>>]

\* the while test at the current position and the yield that follows it
generator_yield(g) ==
    IF ~HasIdx(g.currentState, g.position)
    THEN [g EXCEPT !.st = "done", !.exc = "IndexError"]
    ELSE [g EXCEPT !.st = IF g.position # g.stop THEN "loop" ELSE "last",
                   !.yielded = Append(@, At(g.currentState, g.position))]

\* next(g) on the generator g of the object s: runs to the next yield or to
\* the end of the body
generator_next(s, g) ==
    IF g.st = "new"
    THEN IF s.count > 0
         THEN generator_yield(
                [g EXCEPT !.capacity = s.capacity,
                          !.stop = IF g.rev THEN s.front ELSE s.rear,
                          !.position = IF g.rev THEN s.rear ELSE s.front,
                          !.currentState = s.list])
         ELSE [g EXCEPT !.st = "done"]
    ELSE IF g.st = "loop"
    THEN generator_yield(
            [g EXCEPT !.position = (IF g.rev THEN @ - 1 ELSE @ + 1)
                                        % g.capacity])
    ELSE [g EXCEPT !.st = "done"]

-----------------------------------------------------------------------------
(* The statements of the pushes and the unsafe pops *)

\* The statements of the pushes and the unsafe pops, one operator each: a
\* thread that calls a method without holding a lock executes them one at a
\* time, and another thread's statements may come in between

\* if self._count == self._capacity: self.double()
push_grow(s) == IF s.count = s.capacity THEN double(s) ELSE s

\* self._rear = (self._rear + 1) % self._capacity
push_rear_advance(s) == [s EXCEPT !.rear = (@ + 1) % s.capacity]

\* self._front = (self._front - 1) % self._capacity
push_front_advance(s) == [s EXCEPT !.front = (@ - 1) % s.capacity]

\* self._list[self._rear] = d
push_rear_store(s, d) ==
    IF HasIdx(s.list, s.rear)
    THEN Ok([s EXCEPT !.list = Put(@, s.rear, d)], None, <<>>)
    ELSE Raise(s, "IndexError", "list assignment index out of range")

\* self._list[self._front] = d
push_front_store(s, d) ==
    IF HasIdx(s.list, s.front)
    THEN Ok([s EXCEPT !.list = Put(@, s.front, d)], None, <<>>)
    ELSE Raise(s, "IndexError", "list assignment index out of range")

\* self._count += 1
push_count(s) == [s EXCEPT !.count = @ + 1]

\* the assignment of pop_front_unsafe, once self._count > 0 was found
pop_front_assign(s) ==
    IF HasIdx(s.list, s.front)
    THEN Ok([s EXCEPT !.list = Put(@, s.front, None),
                      !.front = (@ + 1) % s.capacity,
                      !.count = @ - 1],
            At(s.list, s.front), <<>>)
    ELSE Raise(s, "IndexError", "list index out of range")

\* the assignment of pop_rear_unsafe, once self._count > 0 was found
pop_rear_assign(s) ==
    IF HasIdx(s.list, s.rear)
    THEN Ok([s EXCEPT !.list = Put(@, s.rear, None),
                      !.rear = (@ - 1) % s.capacity,
                      !.count = @ - 1],
            At(s.list, s.rear), <<>>)
    ELSE Raise(s, "IndexError", "list index out of range")

Threads == {1, 2}

\* sync: whether callers hold a lock for the length of each call; lock: the
\* thread holding it, 0 if none; pc: the statement each thread is at
NoThreads == [sync |-> TRUE, lock |-> 0,
              pc |-> [t \in Threads |-> "idle"],
              arg |-> [t \in Threads |-> None],
              done |-> [t \in Threads |-> 0]]

-----------------------------------------------------------------------------
(* The state machine: one CA object and the calls made on it *)

\* the object becomes r.s and the call's outcome is recorded
Apply(r) ==
    /\ list' = r.s.list
    /\ count' = r.s.count
    /\ capacity' = r.s.capacity
    /\ front' = r.s.front
    /\ rear' = r.s.rear
    /\ result' = Result(r)

\* the object after the constructor CA(*ds)
Init ==
    \E ds \in Tuples(MaxInit) :
        /\ list = __init__(ds).list
        /\ count = __init__(ds).count
        /\ capacity = __init__(ds).capacity
        /\ front = __init__(ds).front
        /\ rear = __init__(ds).rear
        /\ result = NoResult
        /\ abs = ds
        /\ ninit = Len(ds)
        /\ npushF = 0
        /\ npushR = 0
        /\ npops = 0
        /\ nsteps = 0
        /\ it = NoIter
        /\ ncopied = 0
        /\ th = NoThreads

PushRear(ds) ==
    /\ Apply(push_rear(Self, ds))
    /\ abs' = abs \o ds

PushFront(ds) ==
    /\ Apply(push_front(Self, ds))
    /\ abs' = Reverse(ds) \o abs

PopFrontUnsafe ==
    /\ Apply(pop_front_unsafe(Self))
    /\ abs' = IF abs = <<>> THEN abs ELSE Tail(abs)

PopRearUnsafe ==
    /\ Apply(pop_rear_unsafe(Self))
    /\ abs' = IF abs = <<>> THEN abs ELSE SubSeq(abs, 1, Len(abs) - 1)

PopFront(num, default) ==
    /\ Apply(pop_front(Self, num, default))
    /\ abs' = SubSeq(abs, Min(num, Len(abs)) + 1, Len(abs))

PopRear(num, default) ==
    /\ Apply(pop_rear(Self, num, default))
    /\ abs' = SubSeq(abs, 1, Len(abs) - Min(num, Len(abs)))

GetItem(index) ==
    /\ Apply(__getitem__(Self, index))
    /\ UNCHANGED abs

SetItem(index, value) ==
    LET n == Len(abs)
    IN  /\ Apply(__setitem__(Self, index, value))
        /\ abs' = IF 0 <= index /\ index < n
                  THEN [abs EXCEPT ![index + 1] = value]
                  ELSE IF -n <= index /\ index < 0
                       THEN [abs EXCEPT ![n + index + 1] = value]
                       ELSE abs

Compact ==
    /\ Apply(compact(Self))
    /\ UNCHANGED abs

Double ==
    /\ Apply(Ok(double(Self), None, <<>>))
    /\ UNCHANGED abs

Empty ==
    /\ Apply(Ok(empty(Self), None, <<>>))
    /\ abs' = <<>>

Resize(newSize) ==
    /\ Apply(resize(Self, newSize))
    /\ UNCHANGED abs

-----------------------------------------------------------------------------
(* Spec: every public call, from every constructor.  A behaviour takes at  *)
(* most MaxSteps steps: a push counts one step for each element it pushes  *)
(* (one when it is given none), every other call counts one step.          *)

Steps(n) ==
    /\ nsteps + n <= MaxSteps
    /\ nsteps' = nsteps + n
    /\ UNCHANGED <<ninit, ncopied, th, npushF, npushR, npops, it>>

Call == Steps(1)

Cost(ds) == IF ds = <<>> THEN 1 ELSE Len(ds)

\* the arguments tried in a state: every index in range and the first one
\* out of range on either side; num up to one more than can be popped;
\* newSize up to two more than the capacity
Indices == -(count + 1) .. count

Nums == 0 .. (count + 1)

Defaults == {None} \cup Values

Sizes == 0 .. (capacity + 2)

Next ==
    \/ \E ds \in Tuples(MaxArgs) : PushRear(ds) /\ Steps(Cost(ds))
    \/ \E ds \in Tuples(MaxArgs) : PushFront(ds) /\ Steps(Cost(ds))
    \/ PopFrontUnsafe /\ Call
    \/ PopRearUnsafe /\ Call
    \/ \E num \in Nums, default \in Defaults : PopFront(num, default) /\ Call
    \/ \E num \in Nums, default \in Defaults : PopRear(num, default) /\ Call
    \/ \E index \in Indices : GetItem(index) /\ Call
    \/ \E index \in Indices, value \in Values : SetItem(index, value) /\ Call
    \/ Compact /\ Call
    \/ Double /\ Call
    \/ Empty /\ Call
    \/ \E newSize \in Sizes : Resize(newSize) /\ Call

Spec == Init /\ [][Next]_vars

-----------------------------------------------------------------------------
(* SpecPushPop: pushes and unsafe pops only, from every constructor; a     *)
(* behaviour pushes at most MaxPushes elements.                            *)

Tally(f, r, p) ==
    /\ npushF + npushR + f + r <= MaxPushes
    /\ npushF' = npushF + f
    /\ npushR' = npushR + r
    /\ npops' = npops + p
    /\ UNCHANGED <<ninit, ncopied, th, nsteps, it>>

\* 1 when the call just made returned, 0 when it raised
Returned == IF result'.exc = "none" THEN 1 ELSE 0

NextPushPop ==
    \/ \E ds \in Tuples(MaxArgs) : PushRear(ds) /\ Tally(0, Len(ds), 0)
    \/ \E ds \in Tuples(MaxArgs) : PushFront(ds) /\ Tally(Len(ds), 0, 0)
    \/ PopFrontUnsafe /\ Tally(0, 0, Returned)
    \/ PopRearUnsafe /\ Tally(0, 0, Returned)

SpecPushPop == Init /\ [][NextPushPop]_vars

-----------------------------------------------------------------------------
(* SpecCapacity: the calls that change the layout of the storage (pushes, *)
(* bulk pops, compact, double, empty, resize), from every constructor; a   *)
(* behaviour takes at most MaxCalls steps, counted as in Spec.             *)

Calls(n) ==
    /\ nsteps + n <= MaxCalls
    /\ nsteps' = nsteps + n
    /\ UNCHANGED <<ninit, ncopied, th, npushF, npushR, npops, it>>

NextCapacity ==
    \/ \E ds \in Tuples(MaxArgs) : PushRear(ds) /\ Calls(Cost(ds))
    \/ \E ds \in Tuples(MaxArgs) : PushFront(ds) /\ Calls(Cost(ds))
    \/ \E num \in Nums : PopFront(num, None) /\ Calls(1)
    \/ \E num \in Nums : PopRear(num, None) /\ Calls(1)
    \/ Compact /\ Calls(1)
    \/ Double /\ Calls(1)
    \/ Empty /\ Calls(1)
    \/ \E newSize \in Sizes : Resize(newSize) /\ Calls(1)

SpecCapacity == Init /\ [][NextCapacity]_vars

-----------------------------------------------------------------------------
(* SpecIter: one iterator is obtained from the CA at some moment and       *)
(* consumed element by element, with pushes, unsafe pops, __setitem__,     *)
(* compact, double and resize on the CA before, between and after.  A      *)
(* behaviour takes at most MaxIterSteps steps besides the next() calls.    *)

Frozen == UNCHANGED <<list, count, capacity, front, rear, result, abs>>

\* it = iter(ca): expect records what a full iteration yields at this moment
Iter ==
    /\ it.st = "none"
    /\ it' = [NoIter EXCEPT !.st = "new", !.expect = __iter__(Self).tup]
    /\ Frozen

\* it = reversed(ca)
Reversed ==
    /\ it.st = "none"
    /\ it' = [NoIter EXCEPT !.st = "new", !.rev = TRUE,
                            !.expect = __reversed__(Self).tup]
    /\ Frozen

\* next(it), as long as the generator has not ended
IterNext ==
    /\ it.st \in {"new", "loop", "last"}
    /\ it' = generator_next(Self, it)
    /\ Frozen
    /\ UNCHANGED <<ninit, ncopied, th, npushF, npushR, npops, nsteps>>

IterSteps(n) ==
    /\ nsteps + n <= MaxIterSteps
    /\ nsteps' = nsteps + n
    /\ UNCHANGED <<ninit, ncopied, th, npushF, npushR, npops>>

NextIter ==
    \/ Iter /\ IterSteps(1)
    \/ Reversed /\ IterSteps(1)
    \/ IterNext
    \/ \E ds \in Tuples(MaxArgs) :
            PushRear(ds) /\ IterSteps(Cost(ds)) /\ UNCHANGED it
    \/ \E ds \in Tuples(MaxArgs) :
            PushFront(ds) /\ IterSteps(Cost(ds)) /\ UNCHANGED it
    \/ PopFrontUnsafe /\ IterSteps(1) /\ UNCHANGED it
    \/ PopRearUnsafe /\ IterSteps(1) /\ UNCHANGED it
    \/ \E index \in Indices, value \in Values :
            SetItem(index, value) /\ IterSteps(1) /\ UNCHANGED it
    \/ Compact /\ IterSteps(1) /\ UNCHANGED it
    \/ Double /\ IterSteps(1) /\ UNCHANGED it
    \/ \E newSize \in Sizes : Resize(newSize) /\ IterSteps(1) /\ UNCHANGED it

SpecIter == Init /\ [][NextIter]_vars

-----------------------------------------------------------------------------
(* SpecRead: every call of Spec and, besides, the calls that only read the *)
(* CA: foldL, foldR, map and the full forward and reverse iteration.  A    *)
(* behaviour takes at most MaxReadSteps steps, counted as in Spec.  The    *)
(* result of map is recorded as the content of the CA it returns.          *)

Initials == {None, Falsy} \cup Values

FoldL(initial) ==
    /\ Apply(foldL(Self, initial))
    /\ UNCHANGED abs

FoldR(initial) ==
    /\ Apply(foldR(Self, initial))
    /\ UNCHANGED abs

Map(fn) ==
    LET m == map(Self, fn)
    IN  /\ Apply(IF m.exc = "none"
                 THEN Ok(Self, None, Slice(m.new.list, 1, m.new.count + 1))
                 ELSE Raise(Self, m.exc, "list index out of range"))
        /\ UNCHANGED abs

\* list(ca)
Iterate ==
    LET i == __iter__(Self)
    IN  /\ Apply(IF i.exc = "none" THEN Ok(Self, None, i.tup)
                 ELSE Raise(Self, i.exc, "list index out of range"))
        /\ UNCHANGED abs

\* list(reversed(ca))
IterateReversed ==
    LET i == __reversed__(Self)
    IN  /\ Apply(IF i.exc = "none" THEN Ok(Self, None, i.tup)
                 ELSE Raise(Self, i.exc, "list index out of range"))
        /\ UNCHANGED abs

ReadSteps(n) ==
    /\ nsteps + n <= MaxReadSteps
    /\ nsteps' = nsteps + n
    /\ UNCHANGED <<ninit, ncopied, th, npushF, npushR, npops, it>>

NextRead ==
    \/ \E ds \in Tuples(MaxArgs) : PushRear(ds) /\ ReadSteps(Cost(ds))
    \/ \E ds \in Tuples(MaxArgs) : PushFront(ds) /\ ReadSteps(Cost(ds))
    \/ PopFrontUnsafe /\ ReadSteps(1)
    \/ PopRearUnsafe /\ ReadSteps(1)
    \/ \E num \in Nums, default \in Defaults :
            PopFront(num, default) /\ ReadSteps(1)
    \/ \E num \in Nums, default \in Defaults :
            PopRear(num, default) /\ ReadSteps(1)
    \/ \E index \in Indices : GetItem(index) /\ ReadSteps(1)
    \/ \E index \in Indices, value \in Values :
            SetItem(index, value) /\ ReadSteps(1)
    \/ Compact /\ ReadSteps(1)
    \/ Double /\ ReadSteps(1)
    \/ Empty /\ ReadSteps(1)
    \/ \E newSize \in Sizes : Resize(newSize) /\ ReadSteps(1)
    \/ \E initial \in Initials : FoldL(initial) /\ ReadSteps(1)
    \/ \E initial \in Initials : FoldR(initial) /\ ReadSteps(1)
    \/ \E fn \in Funcs : Map(fn) /\ ReadSteps(1)
    \/ Iterate /\ ReadSteps(1)
    \/ IterateReversed /\ ReadSteps(1)

SpecRead == Init /\ [][NextRead]_vars

-----------------------------------------------------------------------------
(* Vocabulary of the properties *)

\* every self[i], 0 <= i < len(self), can be read
Readable(s) == \A i \in 0..(s.count - 1) : __getitem__(s, i).exc = "none"

\* the logical content [self[0], ..., self[len(self) - 1]]
Logical(s) == [i \in 1..s.count |-> __getitem__(s, i - 1).val]

First(q) == IF q = <<>> THEN None ELSE q[1]

Last(q) == IF q = <<>> THEN None ELSE q[Len(q)]

-----------------------------------------------------------------------------
(* C1: under pushes and unsafe pops from any constructor, the logical      *)
(* content [self[0], ..., self[len-1]] is the abstract sequence to which   *)
(* the same calls were applied (append, prepend, remove first, remove      *)
(* last), and a pop on a non-empty CA returns the element the abstract     *)
(* sequence removes.  Checked under SpecPushPop.                           *)
C1_Refinement ==
    /\ [](Readable(Self) /\ Logical(Self) = abs)
    /\ [][(count > 0 /\ PopFrontUnsafe)
            => (result'.exc = "none" /\ result'.val = First(abs))]_vars
    /\ [][(count > 0 /\ PopRearUnsafe)
            => (result'.exc = "none" /\ result'.val = Last(abs))]_vars

\* a pop has just returned an element of a CA that has grown, holds at least
\* three elements pushed at both ends, and whose live range wraps
C1_Witness ==
    /\ result.exc = "none" /\ result.val \in Values
    /\ npops >= 2 /\ npushF >= 1 /\ npushR >= 3
    /\ capacity >= 6 /\ front > rear /\ count >= 3

(* C4: from an empty CA, after any pushes and unsafe pops, len(ca) is the  *)
(* number of elements pushed minus the number of pops that returned, and   *)
(* never exceeds ca.capacity().  Checked under SpecPushPop.                *)
C4_NetPushes ==
    ninit = 0 =>
        /\ __len__(Self) = npushF + npushR - npops
        /\ __len__(Self) <= capacity

\* a pop has just failed on a CA emptied by pops after pushes at both ends
C4_Witness ==
    /\ ninit = 0 /\ npushF >= 1 /\ npushR >= 2 /\ npops = npushF + npushR
    /\ result.exc = "ValueError" /\ __len__(Self) = 0

(* C2: after the constructor and after every public mutating call, when    *)
(* count > 0 then rear = (front + count - 1) mod capacity, with front and  *)
(* rear both in 0 .. capacity - 1.  Checked under Spec.                    *)
C2_RearFrontCount ==
    count > 0 =>
        /\ rear = (front + count - 1) % capacity
        /\ 0 <= front /\ front < capacity
        /\ 0 <= rear /\ rear < capacity

(* C3: in every state reachable by the constructor and public calls,       *)
(* 0 <= count <= capacity, capacity >= 2 and the storage list has exactly  *)
(* capacity slots.  Checked under Spec.                                    *)
C3_CountCapacityStorage ==
    /\ 0 <= count /\ count <= capacity
    /\ capacity >= 2
    /\ Len(list) = capacity

\* the element at 0-based position k of the abstract sequence
ElemAt(q, k) == IF 0 <= k /\ k < Len(q) THEN <<q[k + 1]>> ELSE <<>>

(* C5: in every reachable state with count > 0, for -count <= i < count,   *)
(* self[i] returns the element at position i (i >= 0) or count + i (i < 0) *)
(* of the sequence, read from slot (front + i) mod capacity respectively   *)
(* (front + count + i) mod capacity, so that self[i] = self[i - count] for *)
(* 0 <= i < count.  Checked under Spec.                                    *)
C5_Indexing ==
    count > 0 =>
        \A i \in (-count)..(count - 1) :
            LET k == IF i >= 0 THEN i ELSE count + i
                p == (front + k) % capacity
                r == __getitem__(Self, i)
            IN  /\ r.exc = "none"
                /\ <<r.val>> = ElemAt(abs, k)
                /\ HasIdx(list, p) /\ r.val = At(list, p)
                /\ i >= 0 => r.val = __getitem__(Self, i - count).val

(* C6: a single-element push_front or push_rear doubles the capacity       *)
(* exactly when count = capacity before the push and otherwise leaves the  *)
(* capacity unchanged; either way count grows by exactly one.  Checked     *)
(* under Spec.                                                             *)
C6_PushGrowth ==
    [][\A d \in Values :
        (PushRear(<<d>>) \/ PushFront(<<d>>)) =>
            /\ capacity' = IF count = capacity THEN 2 * capacity ELSE capacity
            /\ count' = count + 1]_vars

(* C6, the instance: from an empty CA of capacity 2, five elements pushed  *)
(* to the rear give capacity 8 and self[i] returns them in push order.     *)
(* Holds under SpecPushPop.                                                *)
C6_FiveRearPushes ==
    (ninit = 0 /\ npushR = 5 /\ npushF = 0 /\ npops = 0) =>
        /\ capacity = 8
        /\ Readable(Self) /\ Logical(Self) = abs /\ Len(abs) = 5

(* C7: when a push finds the CA full (count = capacity), the doubling      *)
(* leaves rear and count unchanged and preserves every self[i]; front is   *)
(* unchanged when front <= rear and grows by the old capacity when         *)
(* front > rear.  Checked under Spec.                                      *)
C7_DoublingFrame ==
    count = capacity =>
        LET d == double(Self)
        IN  /\ d.rear = rear
            /\ d.count = count
            /\ Readable(Self) /\ Readable(d) /\ Logical(d) = Logical(Self)
            /\ d.front = IF front <= rear THEN front ELSE front + capacity

Object == <<list, count, capacity, front, rear>>

(* C8: pop_front_unsafe and pop_rear_unsafe on a CA with count = 0 raise   *)
(* ValueError and leave the object as it was; on a CA with count > 0 they  *)
(* return the boundary element (self[0], self[-1]) and decrease count by   *)
(* exactly one.  Checked under Spec.                                       *)
C8_UnsafePops ==
    /\ [][PopFrontUnsafe =>
            IF count = 0
            THEN result'.exc = "ValueError" /\ Object' = Object
            ELSE /\ result'.exc = "none"
                 /\ result'.val = __getitem__(Self, 0).val
                 /\ count' = count - 1]_vars
    /\ [][PopRearUnsafe =>
            IF count = 0
            THEN result'.exc = "ValueError" /\ Object' = Object
            ELSE /\ result'.exc = "none"
                 /\ result'.val = __getitem__(Self, -1).val
                 /\ count' = count - 1]_vars

OutOfRange(i) == i >= count \/ i < -count

(* C9: __getitem__(i) and __setitem__(i, v) with i >= count or i < -count  *)
(* raise IndexError and leave the object unchanged, in every reachable     *)
(* state; the message raised on a CA with count = 0 differs from the one   *)
(* raised on a CA with count > 0.  Checked under Spec.                     *)
C9_IndexErrors ==
    /\ [][\A i \in Indices :
            (OutOfRange(i) /\ GetItem(i)) =>
                /\ result'.exc = "IndexError"
                /\ Object' = Object
                /\ (result'.msg = "Trying to get value from an empty CA.")
                        <=> (count = 0)]_vars
    /\ [][\A i \in Indices, v \in Values :
            (OutOfRange(i) /\ SetItem(i, v)) =>
                /\ result'.exc = "IndexError"
                /\ Object' = Object
                /\ (result'.msg = "Trying to set value from an empty CA.")
                        <=> (count = 0)]_vars

\* __setitem__ has just raised the out-of-bounds IndexError on a non-empty
\* CA whose live range wraps
C9_Witness ==
    /\ result.exc = "IndexError"
    /\ result.msg = "Out of bounds: while setting value from a CA."
    /\ count > 0 /\ front > rear
    /\ rear = (front + count - 1) % capacity /\ Len(list) = capacity

(* C10: whenever count = 0, a following push_rear(x) or push_front(x)      *)
(* gives a CA with len 1, self[0] = self[-1] = x, and forward and reverse  *)
(* iteration each yielding exactly x.  Checked under Spec.                 *)
C10_PushOnEmpty ==
    [][\A x \in Values :
        (count = 0 /\ (PushRear(<<x>>) \/ PushFront(<<x>>))) =>
            LET s == Self'
            IN  /\ __len__(s) = 1
                /\ __getitem__(s, 0).exc = "none" /\ __getitem__(s, 0).val = x
                /\ __getitem__(s, -1).exc = "none" /\ __getitem__(s, -1).val = x
                /\ __iter__(s) = [exc |-> "none", tup |-> <<x>>]
                /\ __reversed__(s) = [exc |-> "none", tup |-> <<x>>]]_vars

-----------------------------------------------------------------------------
(* Capacity management: compact, resize, empty *)

\* the storage holds the elements q in slots 1 .. Len(q), the live range
\* being front = 1 .. rear = Len(q) when q is not empty
OneRunFromSlotOne(s, q) ==
    /\ Len(q) >= 1 => (s.front = 1 /\ s.rear = Len(q))
    /\ \A k \in 1..Len(q) : HasIdx(s.list, k) /\ At(s.list, k) = q[k]

(* C11: compact() leaves the logical sequence unchanged (same len, same    *)
(* self[i] for every valid i), sets the capacity to len + 2 (2 when the CA *)
(* is empty) and puts the live elements in one non-wrapped run starting at *)
(* slot 1 (front = 1, rear = count when count >= 1), from every reachable  *)
(* state.  Checked under Spec.                                             *)
C11_Compact ==
    LET c == compact(Self)
    IN  /\ c.exc = "none"
        /\ __len__(c.s) = __len__(Self)
        /\ Readable(Self) /\ Readable(c.s) /\ Logical(c.s) = Logical(Self)
        /\ c.s.capacity = __len__(Self) + 2
        /\ OneRunFromSlotOne(c.s, Logical(Self))

(* C12: compaction is idempotent: from every reachable state, compact()    *)
(* twice gives the same logical content, capacity, front and rear as       *)
(* compact() once.  Checked under Spec.                                    *)
C12_CompactIdempotent ==
    LET c1 == compact(Self)
        c2 == compact(c1.s)
    IN  /\ c1.exc = "none" /\ c2.exc = "none"
        /\ __len__(c2.s) = __len__(c1.s)
        /\ Readable(c1.s) /\ Readable(c2.s) /\ Logical(c2.s) = Logical(c1.s)
        /\ c2.s.capacity = c1.s.capacity
        /\ c2.s.front = c1.s.front
        /\ c2.s.rear = c1.s.rear

Max(a, b) == IF a > b THEN a ELSE b

(* C13: after resize(n) the capacity is max(n, c), c being the capacity    *)
(* compact() alone produces (len + 2), and resize() with no argument       *)
(* (newSize = 0) is the same as compact().  Checked under SpecCapacity.    *)
C13_ResizeCapacity ==
    LET c == compact(Self)
    IN  /\ c.exc = "none"
        /\ c.s.capacity = __len__(Self) + 2
        /\ resize(Self, 0) = c
        /\ \A n \in Sizes :
            /\ resize(Self, n).exc = "none"
            /\ resize(Self, n).s.capacity = Max(n, c.s.capacity)

(* C14: resize(n) never changes the logical sequence, for any n and any    *)
(* reachable state, the empty CA included: right afterwards len and every  *)
(* self[i] are unchanged, and a following push_rear(x) or push_front(x)    *)
(* gives the sequence with x appended respectively prepended.  Checked     *)
(* under Spec.                                                             *)
C14_ResizeKeepsSequence ==
    \A n \in Sizes :
        LET r == resize(Self, n)
        IN  /\ r.exc = "none"
            /\ __len__(r.s) = __len__(Self)
            /\ Readable(Self) /\ Readable(r.s) /\ Logical(r.s) = Logical(Self)
            /\ \A x \in Values :
                LET pr == push_rear(r.s, <<x>>)
                    pf == push_front(r.s, <<x>>)
                IN  /\ pr.exc = "none" /\ pf.exc = "none"
                    /\ Readable(pr.s) /\ Readable(pf.s)
                    /\ Logical(pr.s) = Logical(Self) \o <<x>>
                    /\ Logical(pf.s) = <<x>> \o Logical(Self)

(* C15: empty() empties the CA and keeps its capacity: afterwards len is   *)
(* 0, the CA is false in a boolean context, forward and reverse iteration  *)
(* yield nothing, the capacity is what it was, and a following push gives  *)
(* the one-element sequence.  Checked under Spec.                          *)
C15_Empty ==
    LET e == empty(Self)
    IN  /\ __len__(e) = 0
        /\ ~__bool__(e)
        /\ __iter__(e) = [exc |-> "none", tup |-> <<>>]
        /\ __reversed__(e) = [exc |-> "none", tup |-> <<>>]
        /\ e.capacity = capacity
        /\ \A x \in Values :
            LET pr == push_rear(e, <<x>>)
                pf == push_front(e, <<x>>)
            IN  /\ pr.exc = "none" /\ pf.exc = "none"
                /\ Readable(pr.s) /\ Logical(pr.s) = <<x>>
                /\ Readable(pf.s) /\ Logical(pf.s) = <<x>>

-----------------------------------------------------------------------------
(* Bulk pops and defaults *)

(* C16: pop_front(n) and pop_rear(n), n >= 0, never fail: they remove      *)
(* k = min(n, len) elements and return them as a k-tuple in pop order,     *)
(* (self[0], ..., self[k-1]) respectively (self[-1], ..., self[-k]) of the *)
(* state before; what remains is the content before without those k        *)
(* elements, and n = 0 leaves the CA unchanged.  Checked under Spec.       *)
C16_BulkPops ==
    \A n \in Nums :
        LET q == Logical(Self)
            k == Min(n, __len__(Self))
            pf == pop_front(Self, n, None)
            pr == pop_rear(Self, n, None)
        IN  /\ Readable(Self)
            /\ pf.exc = "none" /\ pr.exc = "none"
            /\ pf.tup = [j \in 1..k |-> q[j]]
            /\ pr.tup = [j \in 1..k |-> q[Len(q) + 1 - j]]
            /\ __len__(pf.s) = Len(q) - k /\ __len__(pr.s) = Len(q) - k
            /\ Readable(pf.s) /\ Logical(pf.s) = SubSeq(q, k + 1, Len(q))
            /\ Readable(pr.s) /\ Logical(pr.s) = SubSeq(q, 1, Len(q) - k)
            /\ n = 0 => (pf.s = Self /\ pr.s = Self)

(* C17: pop_front(1, d) and pop_rear(1, d) with d not None return (d,) on  *)
(* an empty CA and leave it unchanged; on a non-empty CA they return the   *)
(* boundary element (self[0], self[-1]); both treat the default alike, and *)
(* for num # 1 the default is never added to the result.  Checked under    *)
(* Spec.                                                                   *)
C17_DefaultPops ==
    \A d \in Values :
        /\ count = 0 =>
            /\ pop_front(Self, 1, d) = Ok(Self, None, <<d>>)
            /\ pop_rear(Self, 1, d) = Ok(Self, None, <<d>>)
        /\ count > 0 =>
            /\ Readable(Self)
            /\ pop_front(Self, 1, d).exc = "none"
            /\ pop_front(Self, 1, d).tup = <<First(Logical(Self))>>
            /\ pop_rear(Self, 1, d).exc = "none"
            /\ pop_rear(Self, 1, d).tup = <<Last(Logical(Self))>>
        /\ \A num \in Nums \ {1} :
            /\ pop_front(Self, num, d) = pop_front(Self, num, None)
            /\ pop_rear(Self, num, d) = pop_rear(Self, num, None)

-----------------------------------------------------------------------------
(* Iteration *)

(* C18: in every reachable state, forward iteration yields exactly the len *)
(* elements self[0], ..., self[len-1] in that order and reverse iteration  *)
(* yields self[len-1], ..., self[0]; both yield nothing when the CA is     *)
(* empty.  Checked under Spec.                                             *)
C18_Iteration ==
    /\ Readable(Self)
    /\ __iter__(Self) = [exc |-> "none", tup |-> Logical(Self)]
    /\ __reversed__(Self) = [exc |-> "none", tup |-> Reverse(Logical(Self))]
    /\ count = 0 => (__iter__(Self).tup = <<>> /\ __reversed__(Self).tup = <<>>)

\* s is the beginning of t
IsPrefix(s, t) == Len(s) <= Len(t) /\ s = SubSeq(t, 1, Len(s))

(* C19: an iterator obtained from iter(ca) or reversed(ca) yields exactly  *)
(* the elements the CA held when the iterator was obtained, in order,      *)
(* whatever push, pop, set, compact, double or resize is performed on the  *)
(* CA afterwards, before the first element is consumed or between          *)
(* elements.  Checked under SpecIter.                                      *)
C19_IterationSnapshot ==
    it.st # "none" =>
        /\ it.exc = "none"
        /\ IsPrefix(it.yielded, it.expect)
        /\ it.st = "done" => it.yielded = it.expect

-----------------------------------------------------------------------------
(* Writing an element *)

(* C20: __setitem__(i, v) with -count <= i < count overwrites exactly one  *)
(* logical element: afterwards self[i] = v, every other element, count,    *)
(* capacity, front and rear are unchanged, and the write goes to the slot  *)
(* that __getitem__(i) reads.  Checked under Spec.                         *)
C20_SetItemFrame ==
    \A i \in (-count)..(count - 1), v \in Values :
        LET w == __setitem__(Self, i, v)
            k == IF i >= 0 THEN i ELSE count + i
            p == (front + k) % capacity
        IN  /\ Readable(Self)
            /\ w.exc = "none"
            /\ w.s.count = count /\ w.s.capacity = capacity
            /\ w.s.front = front /\ w.s.rear = rear
            /\ __getitem__(w.s, i) = Ok(w.s, v, <<>>)
            /\ Logical(w.s) = [Logical(Self) EXCEPT ![k + 1] = v]
            /\ HasIdx(list, p) /\ w.s.list = Put(list, p, v)

-----------------------------------------------------------------------------
(* Equality *)

\* CAs holding the sequence q, reached by different histories: constructed
\* from q, pushed to the rear of CA(), pushed to the front of CA() (the live
\* range wraps), constructed and resized
Histories(q) ==
    { __init__(q),
      push_rear(__init__(<<>>), q).s,
      push_front(__init__(<<>>), Reverse(q)).s,
      resize(__init__(q), Len(q) + 4).s }

(* C21: two CAs compare equal if and only if they have the same len and    *)
(* self[i] = other[i] for every 0 <= i < len, whatever front, rear,        *)
(* capacity and history of either; equality is reflexive and symmetric.    *)
(* Checked under Spec, the other CA ranging over Histories.                *)
C21_Equality ==
    /\ Readable(Self)
    /\ __eq__(Self, Self) = [exc |-> "none", val |-> TRUE]
    /\ \A q \in Tuples(MaxOther) : \A o \in Histories(q) :
        /\ Readable(o) /\ Logical(o) = q
        /\ __eq__(Self, o) = [exc |-> "none", val |-> Logical(Self) = q]
        /\ __eq__(o, Self) = __eq__(Self, o)

-----------------------------------------------------------------------------
(* map and the folds *)

(* C22: map(f) returns a new CA with the same len whose element i is       *)
(* f(self[i]), in logical order, for every reachable state and every f.    *)
(* (map assigns nothing to self, and the new CA is built on a list of its  *)
(* own.)  Checked under Spec.                                              *)
C22_Map ==
    \A f \in Funcs :
        LET m == map(Self, f)
        IN  /\ Readable(Self)
            /\ m.exc = "none"
            /\ __len__(m.new) = __len__(Self)
            /\ Readable(m.new)
            /\ Logical(m.new) = [j \in 1..count |-> f[Logical(Self)[j]]]

\* the left fold of the sequence q from acc: ((acc q1) q2) ... qn
RECURSIVE FoldLeft(_, _)
FoldLeft(acc, q) ==
    IF q = <<>> THEN acc
    ELSE fold_f(FoldLeft(acc, SubSeq(q, 1, Len(q) - 1)), Term(q[Len(q)]))

\* the right fold of the sequence q onto acc: (q1 (q2 ... (qn acc)))
RECURSIVE FoldRight(_, _)
FoldRight(q, acc) ==
    IF q = <<>> THEN acc
    ELSE fold_f(Term(Head(q)), FoldRight(Tail(q), acc))

(* C23: on a non-empty CA holding x0 .. x(n-1), foldL(f, initial) is       *)
(* f(...f(f(initial, x0), x1)..., x(n-1)), foldL(f) is the same started    *)
(* from x0, foldR(f, initial) is f(x0, f(x1, ... f(x(n-1), initial))) and  *)
(* foldR(f) is the same started from x(n-1); neither fold changes the CA.  *)
(* Checked under SpecRead.                                                 *)
C23_Folds ==
    /\ [][\A initial \in Initials :
            (count > 0 /\ FoldL(initial)) =>
                LET q == Logical(Self)
                IN  /\ Readable(Self)
                    /\ result'.exc = "none"
                    /\ result'.tup = IF initial = None
                                     THEN FoldLeft(Term(q[1]), Tail(q))
                                     ELSE FoldLeft(Term(initial), q)
                    /\ Object' = Object]_vars
    /\ [][\A initial \in Initials :
            (count > 0 /\ FoldR(initial)) =>
                LET q == Logical(Self)
                    n == Len(q)
                IN  /\ Readable(Self)
                    /\ result'.exc = "none"
                    /\ result'.tup = IF initial = None
                                     THEN FoldRight(SubSeq(q, 1, n - 1),
                                                    Term(q[n]))
                                     ELSE FoldRight(q, Term(initial))
                    /\ Object' = Object]_vars

(* C24: on an empty CA (len 0), foldL and foldR without an initial value   *)
(* raise ValueError and leave the CA unchanged; with an initial value, a   *)
(* falsy one included, they return that value, f not being applied.        *)
(* Checked under SpecRead.                                                 *)
C24_EmptyFolds ==
    /\ [][\A initial \in Initials :
            (count = 0 /\ FoldL(initial)) =>
                /\ Object' = Object
                /\ initial = None =>
                    /\ result'.exc = "ValueError"
                    /\ result'.msg =
                        "Method foldL called on an empty CA without an initial value."
                /\ initial # None =>
                    (result'.exc = "none" /\ result'.tup = Term(initial))]_vars
    /\ [][\A initial \in Initials :
            (count = 0 /\ FoldR(initial)) =>
                /\ Object' = Object
                /\ initial = None =>
                    /\ result'.exc = "ValueError"
                    /\ result'.msg =
                        "Method foldR called on an empty CA without an initial value."
                /\ initial # None =>
                    (result'.exc = "none" /\ result'.tup = Term(initial))]_vars

\* a fold has just returned its falsy initial value on a CA that was
\* constructed with an element and drained since
C24_Witness ==
    /\ result.exc = "none" /\ result.tup = Term(Falsy)
    /\ count = 0 /\ ninit = 1 /\ capacity = 3

----------------------------------------------------------------------------
(* The constructor                                                         *)

\* s is what the claim says CA(*ds) is
Built(s, ds) ==
    LET N == Len(ds)
    IN  /\ __len__(s) = N
        /\ Readable(s)
        /\ Logical(s) = ds
        /\ s.capacity = N + 2
        /\ Len(s.list) = s.capacity
        /\ N >= 1 => /\ s.front = 1
                     /\ \A j \in 1..N : At(s.list, j) = ds[j]

----------------------------------------------------------------------------
(* Placeholders                                                            *)

\* the physical slots of the live range of s
LiveSlots(s) == {(s.front + k) % s.capacity : k \in 0..(s.count - 1)}

(* C26: in every reachable state every physical slot outside the live      *)
(* range front, front+1, ..., front+count-1 (modulo capacity) holds None;  *)
(* the elements stored are never None.  Checked under Spec.                *)
C26_Placeholders ==
    \A p \in 0..(Len(list) - 1) :
        p \notin LiveSlots(Self) => At(list, p) = None

----------------------------------------------------------------------------
(* The class CircularArray of grscheller/circular_array.py: its storage    *)
(* has no placeholder slots around the data                                *)

CircularArray_init(data) ==
    IF Len(data) = 0
    THEN [list |-> <<None, None>>, count |-> 0, capacity |-> 2,
          front |-> 0, rear |-> 1]
    ELSE [list |-> data, count |-> Len(data), capacity |-> Len(data),
          front |-> 0, rear |-> Len(data) - 1]

CircularArray_double(s) ==
    IF s.front <= s.rear
    THEN [s EXCEPT !.list = @ \o Nones(s.capacity),
                   !.capacity = 2 * @]
    ELSE [s EXCEPT !.list = Slice(@, 0, s.front) \o Nones(s.capacity)
                            \o Slice(@, s.front, Len(@)),
                   !.front = @ + s.capacity,
                   !.capacity = 2 * @]

CircularArray_pushR(s, value) ==
    LET s1 == IF s.count = s.capacity THEN CircularArray_double(s) ELSE s
        s2 == [s1 EXCEPT !.rear = (@ + 1) % s1.capacity]
    IN  IF HasIdx(s2.list, s2.rear)
        THEN Ok([s2 EXCEPT !.list = Put(@, s2.rear, value),
                           !.count = @ + 1], None, <<>>)
        ELSE Raise(s2, "IndexError", "list assignment index out of range")

CircularArray_pushL(s, value) ==
    LET s1 == IF s.count = s.capacity THEN CircularArray_double(s) ELSE s
        s2 == [s1 EXCEPT !.front = (@ - 1) % s1.capacity]
    IN  IF HasIdx(s2.list, s2.front)
        THEN Ok([s2 EXCEPT !.list = Put(@, s2.front, value),
                           !.count = @ + 1], None, <<>>)
        ELSE Raise(s2, "IndexError", "list assignment index out of range")

CircularArray_popR(s) ==
    IF s.count = 0 THEN Ok(s, None, <<>>)
    ELSE IF HasIdx(s.list, s.rear)
    THEN Ok([s EXCEPT !.count = @ - 1,
                      !.list = Put(@, s.rear, None),
                      !.rear = (@ - 1) % s.capacity],
            At(s.list, s.rear), <<>>)
    ELSE Raise(s, "IndexError", "list index out of range")

CircularArray_popL(s) ==
    IF s.count = 0 THEN Ok(s, None, <<>>)
    ELSE IF HasIdx(s.list, s.front)
    THEN Ok([s EXCEPT !.count = @ - 1,
                      !.list = Put(@, s.front, None),
                      !.front = (@ + 1) % s.capacity],
            At(s.list, s.front), <<>>)
    ELSE Raise(s, "IndexError", "list index out of range")

CircularArray_compact(s) ==
    IF s.count = 0
    THEN Ok([s EXCEPT !.capacity = 2, !.front = 0, !.rear = 1,
                      !.list = Nones(2)], None, <<>>)
    ELSE IF s.count = 1
    THEN IF HasIdx(s.list, s.front)
         THEN Ok([s EXCEPT !.capacity = 1, !.front = 0, !.rear = 0,
                           !.list = <<At(s.list, s.front)>>], None, <<>>)
         ELSE Raise(s, "IndexError", "list index out of range")
    ELSE IF s.front <= s.rear
    THEN Ok([s EXCEPT !.capacity = s.count, !.front = 0,
                      !.rear = s.count - 1,
                      !.list = Slice(@, s.front, s.rear + 1)], None, <<>>)
    ELSE Ok([s EXCEPT !.capacity = s.count, !.front = 0,
                      !.rear = s.count - 1,
                      !.list = Slice(@, s.front, Len(@))
                               \o Slice(@, 0, s.rear + 1)], None, <<>>)

CircularArray_empty(s) ==
    Ok([s EXCEPT !.list = Nones(s.capacity), !.front = 0,
                 !.rear = s.capacity - 1], None, <<>>)

CircularArray_resize(s, newSize) ==
    LET c == CircularArray_compact(s)
        cap == c.s.capacity
    IN  IF c.exc # "none" THEN c
        ELSE IF newSize > cap
        THEN LET s1 == [c.s EXCEPT !.list = @ \o Nones(newSize - cap),
                                   !.capacity = newSize]
             IN  Ok(IF s1.count = 0 THEN [s1 EXCEPT !.rear = cap - 1] ELSE s1,
                    None, <<>>)
        ELSE c

InitCircularArray ==
    \E data \in Tuples(MaxInit) :
        /\ list = CircularArray_init(data).list
        /\ count = CircularArray_init(data).count
        /\ capacity = CircularArray_init(data).capacity
        /\ front = CircularArray_init(data).front
        /\ rear = CircularArray_init(data).rear
        /\ result = NoResult
        /\ abs = data
        /\ ninit = Len(data)
        /\ npushF = 0
        /\ npushR = 0
        /\ npops = 0
        /\ nsteps = 0
        /\ it = NoIter
        /\ ncopied = 0
        /\ th = NoThreads

PushR(value) ==
    /\ Apply(CircularArray_pushR(Self, value))
    /\ abs' = Append(abs, value)

PushL(value) ==
    /\ Apply(CircularArray_pushL(Self, value))
    /\ abs' = <<value>> \o abs

PopR ==
    /\ Apply(CircularArray_popR(Self))
    /\ abs' = IF abs = <<>> THEN abs ELSE SubSeq(abs, 1, Len(abs) - 1)

PopL ==
    /\ Apply(CircularArray_popL(Self))
    /\ abs' = IF abs = <<>> THEN abs ELSE Tail(abs)

CircularArrayCompact ==
    /\ Apply(CircularArray_compact(Self))
    /\ UNCHANGED abs

CircularArrayDouble ==
    /\ Apply(Ok(CircularArray_double(Self), None, <<>>))
    /\ UNCHANGED abs

CircularArrayEmpty ==
    /\ Apply(CircularArray_empty(Self))
    /\ abs' = <<>>

CircularArrayResize(newSize) ==
    /\ Apply(CircularArray_resize(Self, newSize))
    /\ UNCHANGED abs

CircSteps ==
    /\ nsteps + 1 <= MaxCircSteps
    /\ nsteps' = nsteps + 1
    /\ UNCHANGED <<ninit, ncopied, th, npushF, npushR, npops, it>>

NextCircularArray ==
    \/ \E value \in Values : PushR(value) /\ CircSteps
    \/ \E value \in Values : PushL(value) /\ CircSteps
    \/ PopR /\ CircSteps
    \/ PopL /\ CircSteps
    \/ CircularArrayCompact /\ CircSteps
    \/ CircularArrayDouble /\ CircSteps
    \/ CircularArrayEmpty /\ CircSteps
    \/ \E newSize \in Sizes : CircularArrayResize(newSize) /\ CircSteps

SpecCircularArray == InitCircularArray /\ [][NextCircularArray]_vars

(* C27: for the class CircularArray, capacity >= 2 and                     *)
(* 0 <= count <= capacity = len(_list) hold after construction from any    *)
(* argument tuple and after every public operation.  Checked under         *)
(* SpecCircularArray.                                                      *)
C27_CircularArrayInvariant ==
    /\ capacity >= 2
    /\ 0 <= count /\ count <= capacity
    /\ capacity = Len(list)

----------------------------------------------------------------------------
(* Single-element pushes onto a freshly constructed empty CA               *)

InitSingles == Init /\ ninit = 0

\* one more push: growth, seen as a change of capacity, copies the slots
\* the CA had
Singles ==
    /\ nsteps + 1 <= MaxSingles
    /\ nsteps' = nsteps + 1
    /\ ncopied' = ncopied + (IF capacity' # capacity THEN capacity ELSE 0)
    /\ UNCHANGED <<ninit, npushF, npushR, npops, it, th>>

NextSingles ==
    \/ \E value \in Values : PushRear(<<value>>) /\ Singles
    \/ \E value \in Values : PushFront(<<value>>) /\ Singles

SpecSingles == InitSingles /\ [][NextSingles]_vars

(* C28: for n >= 1 single-element pushes, to either end, onto a freshly    *)
(* constructed empty CA of capacity 2, growth happens only on a push that  *)
(* finds count = capacity, each growth doubles the capacity, and the       *)
(* capacities at which the doublings occurred sum to less than 2n.         *)
(* Checked under SpecSingles.                                              *)
C28_AmortizedPushes ==
    /\ [][capacity' # capacity =>
            (count = capacity /\ capacity' = 2 * capacity)]_vars
    /\ [](nsteps >= 1 => (count = nsteps /\ ncopied < 2 * nsteps))

\* nine pushes to both ends have grown the CA three times, 2 + 4 + 8 slots
C28_Witness ==
    /\ nsteps = 9 /\ count = 9 /\ capacity = 16 /\ ncopied = 14
    /\ front > rear

----------------------------------------------------------------------------
(* double() as a public method                                             *)

(* C29: double() called in any reachable state, empty, partly filled or    *)
(* full, wrapped or not, exactly doubles the capacity and leaves len and   *)
(* the logical sequence unchanged, and a following push_rear, push_front,  *)
(* pop or index operation behaves as on the abstract sequence.  Checked    *)
(* under Spec.                                                             *)
C29_DirectDouble ==
    LET d == double(Self)
        q == Logical(Self)
    IN  /\ d.capacity = 2 * capacity
        /\ Len(d.list) = d.capacity
        /\ __len__(d) = __len__(Self)
        /\ Readable(Self) /\ Readable(d) /\ Logical(d) = q
        /\ \A x \in Values :
            LET pr == push_rear(d, <<x>>)
                pf == push_front(d, <<x>>)
            IN  /\ pr.exc = "none" /\ pf.exc = "none"
                /\ Readable(pr.s) /\ Readable(pf.s)
                /\ Logical(pr.s) = q \o <<x>>
                /\ Logical(pf.s) = <<x>> \o q
        /\ count > 0 =>
            LET qf == pop_front_unsafe(d)
                qr == pop_rear_unsafe(d)
            IN  /\ qf.exc = "none" /\ qf.val = Head(q)
                /\ Readable(qf.s) /\ Logical(qf.s) = Tail(q)
                /\ qr.exc = "none" /\ qr.val = q[Len(q)]
                /\ Readable(qr.s) /\ Logical(qr.s) = SubSeq(q, 1, Len(q) - 1)

----------------------------------------------------------------------------
(* What changes the capacity                                               *)

\* a call of a method that reads the CA, pops from it or stores an element
ReadPopOrStore ==
    \/ PopFrontUnsafe
    \/ PopRearUnsafe
    \/ \E num \in Nums, default \in Defaults : PopFront(num, default)
    \/ \E num \in Nums, default \in Defaults : PopRear(num, default)
    \/ \E index \in Indices : GetItem(index)
    \/ \E index \in Indices, value \in Values : SetItem(index, value)
    \/ Iterate
    \/ IterateReversed
    \/ \E fn \in Funcs : Map(fn)
    \/ \E initial \in Initials : FoldL(initial)
    \/ \E initial \in Initials : FoldR(initial)

\* c is b doubled between one and k times
Doubled(b, c, k) == \E j \in 1..k : c = b * (2 ^ j)

(* C30: the pops, __setitem__, __getitem__, iteration, map and the folds   *)
(* never change the capacity; a push of one element changes it only by     *)
(* doubling it, and only when it finds count = capacity (a push of several *)
(* elements doubles it once for each element that finds the CA full);      *)
(* the capacity decreases only inside compact() or resize().  Checked      *)
(* under SpecRead; the first three conjuncts are stated from the change of *)
(* capacity: a step that changes it is no read, pop or store, and if it is *)
(* a push, the push found the CA full and doubled it.                      *)
C30_CapacityFrame ==
    /\ [][capacity' # capacity => ~ReadPopOrStore]_vars
    /\ [][capacity' # capacity =>
            \A x \in Values :
                (PushRear(<<x>>) \/ PushFront(<<x>>)) =>
                    (count = capacity /\ capacity' = 2 * capacity)]_vars
    /\ [][capacity' # capacity =>
            \A ds \in Tuples(MaxArgs) :
                (PushRear(ds) \/ PushFront(ds)) =>
                    /\ count <= capacity
                    /\ count + Len(ds) > capacity
                    /\ Doubled(capacity, capacity', Len(ds))]_vars
    /\ [][capacity' < capacity =>
            (Compact \/ \E newSize \in Sizes : Resize(newSize))]_vars

\* the third element pushed onto CA() found it full and doubled it
C30_Witness ==
    /\ ninit = 0 /\ nsteps = 3 /\ count = 3 /\ capacity = 4
    /\ Len(list) = 4 /\ Readable(Self) /\ Logical(Self) = abs

----------------------------------------------------------------------------
(* Pushes of several elements                                              *)

(* C31: a push of several arguments applies them one at a time from left   *)
(* to right: after push_rear(d1, ..., dk) the last k logical elements are  *)
(* d1, ..., dk in that order, and after push_front(d1, ..., dk) the first  *)
(* k logical elements are dk, ..., d1, also when the CA grows in the       *)
(* middle of the argument list.  Checked under Spec.                       *)
C31_MultiPush ==
    \A ds \in Tuples(MaxArgs) :
        LET k == Len(ds)
            pr == push_rear(Self, ds)
            pf == push_front(Self, ds)
        IN  /\ pr.exc = "none" /\ pf.exc = "none"
            /\ __len__(pr.s) = count + k /\ __len__(pf.s) = count + k
            /\ Readable(pr.s) /\ Readable(pf.s)
            /\ SubSeq(Logical(pr.s), count + 1, count + k) = ds
            /\ SubSeq(Logical(pf.s), 1, k) = Reverse(ds)

----------------------------------------------------------------------------
(* Two threads calling one CA.  With th.sync a thread holds a lock from    *)
(* the call to the return, so calls run one after the other; without it    *)
(* the statements of the two threads' calls interleave.                    *)

InitThreads ==
    \E ds \in Tuples(MaxInit), sync \in BOOLEAN :
        /\ list = __init__(ds).list
        /\ count = __init__(ds).count
        /\ capacity = __init__(ds).capacity
        /\ front = __init__(ds).front
        /\ rear = __init__(ds).rear
        /\ result = NoResult
        /\ abs = ds
        /\ ninit = Len(ds)
        /\ npushF = 0
        /\ npushR = 0
        /\ npops = 0
        /\ nsteps = 0
        /\ it = NoIter
        /\ ncopied = 0
        /\ th = [NoThreads EXCEPT !.sync = sync]

\* the object becomes s; the outcome of the last call stays
Becomes(s) ==
    /\ list' = s.list
    /\ count' = s.count
    /\ capacity' = s.capacity
    /\ front' = s.front
    /\ rear' = s.rear
    /\ UNCHANGED result

History == UNCHANGED <<ninit, npushF, npushR, npops, nsteps, it, ncopied>>

\* thread t moves on to the statement at label
Goto(t, label) == th' = [th EXCEPT !.pc[t] = label]

\* thread t returns from its call, or leaves it by an exception
Return(t) ==
    th' = [th EXCEPT !.pc[t] = "idle", !.arg[t] = None, !.lock = 0,
                     !.done[t] = @ + 1]

Methods == {"push_rear", "push_front", "pop_front_unsafe", "pop_rear_unsafe",
            "empty", "double"}

\* thread t calls method m with argument d (d matters to the pushes only)
ThreadCall(t, m, d) ==
    /\ th.pc[t] = "idle"
    /\ th.done[t] < MaxThreadOps
    /\ th.sync => th.lock = 0
    /\ IF m \in {"push_rear", "push_front"} THEN d \in Values ELSE d = None
    /\ th' = [th EXCEPT !.pc[t] = m, !.arg[t] = d,
                        !.lock = IF th.sync THEN t ELSE 0]
    /\ UNCHANGED <<list, count, capacity, front, rear, result, abs>>
    /\ History

\* push_rear and push_front: the test for a full CA, with the doubling
ThreadPushGrow(t) ==
    /\ th.pc[t] \in {"push_rear", "push_front"}
    /\ Becomes(push_grow(Self))
    /\ Goto(t, IF th.pc[t] = "push_rear" THEN "rear_advance"
                                          ELSE "front_advance")
    /\ UNCHANGED abs
    /\ History

ThreadPushRearAdvance(t) ==
    /\ th.pc[t] = "rear_advance"
    /\ Becomes(push_rear_advance(Self))
    /\ Goto(t, "rear_store")
    /\ UNCHANGED abs
    /\ History

ThreadPushFrontAdvance(t) ==
    /\ th.pc[t] = "front_advance"
    /\ Becomes(push_front_advance(Self))
    /\ Goto(t, "front_store")
    /\ UNCHANGED abs
    /\ History

ThreadPushRearStore(t) ==
    /\ th.pc[t] = "rear_store"
    /\ LET r == push_rear_store(Self, th.arg[t])
       IN  IF r.exc = "none"
           THEN Becomes(r.s) /\ Goto(t, "rear_count")
           ELSE Apply(r) /\ Return(t)
    /\ UNCHANGED abs
    /\ History

ThreadPushFrontStore(t) ==
    /\ th.pc[t] = "front_store"
    /\ LET r == push_front_store(Self, th.arg[t])
       IN  IF r.exc = "none"
           THEN Becomes(r.s) /\ Goto(t, "front_count")
           ELSE Apply(r) /\ Return(t)
    /\ UNCHANGED abs
    /\ History

\* the last statement of a push; the call returns
ThreadPushCount(t) ==
    /\ th.pc[t] \in {"rear_count", "front_count"}
    /\ Apply(Ok(push_count(Self), None, <<>>))
    /\ abs' = IF th.pc[t] = "rear_count" THEN Append(abs, th.arg[t])
                                         ELSE <<th.arg[t]>> \o abs
    /\ Return(t)
    /\ History

\* the unsafe pops: the test of self._count, raising on an empty CA
ThreadPopTest(t) ==
    /\ th.pc[t] \in {"pop_front_unsafe", "pop_rear_unsafe"}
    /\ IF count > 0
       THEN /\ Goto(t, IF th.pc[t] = "pop_front_unsafe" THEN "front_assign"
                                                        ELSE "rear_assign")
            /\ UNCHANGED <<list, count, capacity, front, rear, result>>
       ELSE /\ Apply(IF th.pc[t] = "pop_front_unsafe"
                     THEN pop_front_unsafe(Self) ELSE pop_rear_unsafe(Self))
            /\ Return(t)
    /\ UNCHANGED abs
    /\ History

\* the unsafe pops: the assignment, and the return of the element
ThreadPopAssign(t) ==
    /\ th.pc[t] \in {"front_assign", "rear_assign"}
    /\ Apply(IF th.pc[t] = "front_assign"
             THEN pop_front_assign(Self) ELSE pop_rear_assign(Self))
    /\ abs' = IF abs = <<>> THEN abs
              ELSE IF th.pc[t] = "front_assign" THEN Tail(abs)
              ELSE SubSeq(abs, 1, Len(abs) - 1)
    /\ Return(t)
    /\ History

ThreadEmpty(t) ==
    /\ th.pc[t] = "empty"
    /\ Apply(Ok(empty(Self), None, <<>>))
    /\ abs' = <<>>
    /\ Return(t)
    /\ History

ThreadDouble(t) ==
    /\ th.pc[t] = "double"
    /\ Apply(Ok(double(Self), None, <<>>))
    /\ UNCHANGED abs
    /\ Return(t)
    /\ History

NextThreads ==
    \E t \in Threads :
        \/ \E m \in Methods, d \in {None} \cup Values : ThreadCall(t, m, d)
        \/ ThreadPushGrow(t)
        \/ ThreadPushRearAdvance(t)
        \/ ThreadPushFrontAdvance(t)
        \/ ThreadPushRearStore(t)
        \/ ThreadPushFrontStore(t)
        \/ ThreadPushCount(t)
        \/ ThreadPopTest(t)
        \/ ThreadPopAssign(t)
        \/ ThreadEmpty(t)
        \/ ThreadDouble(t)

SpecThreads == InitThreads /\ [][NextThreads]_vars

\* no thread is inside a call
Quiet == \A t \in Threads : th.pc[t] = "idle"

\* the number of slots that hold an element
Stored == Cardinality({p \in 1..Len(list) : list[p] # None})

\* fewer elements are stored than the calls that returned pushed and left
Lost == Stored < Len(abs)

\* rear = (front + count - 1) mod capacity
RearInStep == rear = (front + count - 1) % capacity

(* C32: when every call of a mutating method runs to completion under      *)
(* exclusive access, no interleaving of the two threads' calls reaches a   *)
(* state in which a pushed element is lost or                              *)
(* rear # (front + count - 1) mod capacity; without that exclusion, with   *)
(* the statements of the calls interleaving, such a state is reachable     *)
(* (C32_RacyLoss).  Checked under SpecThreads.                             *)
C32_ExclusiveAccess == (th.sync /\ Quiet) => (~Lost /\ RearInStep)

\* two pushes that interleaved without a lock have returned, and an element
\* is lost or rear is out of step
C32_RacyLoss ==
    /\ ~th.sync /\ Quiet
    /\ \A t \in Threads : th.done[t] = 1
    /\ Len(abs) = ninit + 2
    /\ Lost \/ ~RearInStep

=============================================================================
